---- MODULE Spec2Model ----
(***************************************************************************)
(* The authentication routes of src/src/routes/auth.py as a state machine. *)
(*                                                                         *)
(* State: the account store (rows of the users table), the wall clock, the *)
(* tokens handed out so far (in responses and in mails), per worker the    *)
(* request it is in the middle of, and the response the last step sent.    *)
(*                                                                         *)
(* Every route is an async handler.  A handler is split where it awaits    *)
(* the account store for a WRITE: everything up to and including the read  *)
(* (get_user_by_email) and the checks made on the object read is one step  *)
(* (the ..._check actions), the write and the response are the next step   *)
(* (the ..._write actions).  The object read is a snapshot: the write step *)
(* acts on what the handler saw, not on what the store holds by then.      *)
(*                                                                         *)
(* auth_service (hashing, token codec), repository_auth (the store) and    *)
(* the mailer are imported by the routes and are not part of the source    *)
(* tree at hand; they are modelled from sections 4.1, 4.2, 4.4 and 6 of    *)
(* spec.md.                                                                *)
(***************************************************************************)
EXTENDS Naturals, Sequences, FiniteSets, TLC

\* ---------------------------------------------------------------- bounds
\* One address: every claim is about one account, and before its signup the
\* address is also the one that has no account.
Emails == {"a@x.com"}
Passwords == {"pw1", "pw2"}
Salts == {"s1"}
NumWorkers == 2
MaxTime == 1
\* Per-scope lifetimes (configuration inputs, spec.md 4.2), in clock ticks.
AccessTTL == 1
RefreshTTL == 2
VerifyTTL == 1

Workers == 1..NumWorkers
Scopes == {"access", "refresh", "email_verify", "password_reset"}

\* ---------------------------------------------------------------- values
\* A token is what the codec signs: subject, scope, issued-at (expires-at is
\* issued-at + the scope's ttl).  NoToken is Python's None in a token field;
\* Garbage is a string that is no signed token.
NoToken == [sub |-> "-", scope |-> "null", iat |-> 0]
Garbage == [sub |-> "-", scope |-> "garbage", iat |-> 0]
NoHash == [pw |-> "-", salt |-> "-"]

VARIABLES users, now, issued, loc, resp

vars == <<users, now, issued, loc, resp>>

\* loc[p]: the handler worker p is in the middle of (op), the request it
\* serves (email, password, token) and the user object it loaded (id, and the
\* refresh token the object held when loaded).
Idle ==
    [op |-> "idle", email |-> "-", password |-> "-", token |-> NoToken,
     id |-> 0, seen |-> NoToken]

\* resp: the response sent by the step that led to this state, with the
\* request it answers; NoResp after a step that sent none.
NoResp ==
    [op |-> "-", status |-> "-", email |-> "-", password |-> "-",
     token |-> NoToken, access_token |-> NoToken, refresh_token |-> NoToken,
     mail |-> NoToken]

Init ==
    /\ users = <<>>
    /\ now = 0
    /\ issued = {}
    /\ loc = [p \in Workers |-> Idle]
    /\ resp = NoResp

\* ------------------------------------------------------ credential hasher
\* auth_service.get_password_hash: a salted one-way hash.
get_password_hash(plaintext, salt) == [pw |-> plaintext, salt |-> salt]

\* auth_service.verify_password: false on anything that is no hash of plain.
verify_password(plaintext, hash) == hash.pw = plaintext

\* ------------------------------------------------------------ token codec
TTL(scope) ==
    CASE scope = "access" -> AccessTTL
      [] scope = "refresh" -> RefreshTTL
      [] OTHER -> VerifyTTL

\* encode(subject, scope, ttl) at time t: the signed payload.  Two calls with
\* the same subject and scope at the same clock reading give the same string.
Encode(sub, scope, t) == [sub |-> sub, scope |-> scope, iat |-> t]

Expires(token) == token.iat + TTL(token.scope)

DecodeOk(sub) == [ok |-> TRUE, sub |-> sub, err |-> "-"]
DecodeErr(err) == [ok |-> FALSE, sub |-> "-", err |-> err]

\* decode(token, expected scope) at time t: signature, then expiry, then scope.
Decode(token, expected, t) ==
    IF token.scope \notin Scopes THEN DecodeErr("TokenInvalid")
    ELSE IF ~(t < Expires(token)) THEN DecodeErr("TokenExpired")
    ELSE IF token.scope \notin expected THEN DecodeErr("TokenScopeMismatch")
    ELSE DecodeOk(token.sub)

create_access_token(sub, t) == Encode(sub, "access", t)
create_refresh_token(sub, t) == Encode(sub, "refresh", t)
create_email_token(sub, t) == Encode(sub, "email_verify", t)
create_reset_token(sub, t) == Encode(sub, "password_reset", t)

decode_refresh_token(token, t) == Decode(token, {"refresh"}, t)

\* The one decoder behind both confirmed_email and reset_password: it is called
\* with the token alone, so it cannot tell which of the two verification
\* purposes its caller expects.
get_email_from_token(token, t) ==
    Decode(token, {"email_verify", "password_reset"}, t)

\* ---------------------------------------------------------- account store
\* repository_auth.get_user_by_email: the row's id, 0 for None.
get_user_by_email(email) ==
    LET ids == {i \in 1..Len(users) : users[i].email = email}
    IN  IF ids = {} THEN 0 ELSE CHOOSE i \in ids : \A j \in ids : i <= j

\* repository_auth.create_user: a new, unconfirmed row without refresh token.
create_user(email, hash) ==
    Append(users, [email |-> email, password |-> hash, confirmed |-> FALSE,
                   refresh_token |-> NoToken])

\* The store keeps email unique (spec.md 3): create_user raises for an email
\* that already has a row.
create_user_raises(email) == get_user_by_email(email) # 0

\* repository_auth.update_token(user, token, db)
update_token(id, token) == [users EXCEPT ![id].refresh_token = token]

\* repository_auth.confirmed_email(email, db): looks the user up again.
set_confirmed(email) ==
    [users EXCEPT ![get_user_by_email(email)].confirmed = TRUE]

\* repository_auth.update_user_password(user, hashed_password, db)
update_user_password(id, hash) == [users EXCEPT ![id].password = hash]

\* ------------------------------------------------------------- the caller
\* What a client can present: a token it was handed, or a string of its own.
Presentable == issued \cup {Garbage}

Request(op, email, password, token) ==
    [op |-> op, email |-> email, password |-> password, token |-> token,
     id |-> 0, seen |-> NoToken]

Response(r, status) ==
    [op |-> r.op, status |-> status, email |-> r.email,
     password |-> r.password, token |-> r.token, access_token |-> NoToken,
     refresh_token |-> NoToken, mail |-> NoToken]

\* The handler returns (or raises): worker p is free again.
Respond(p, r) ==
    /\ resp' = r
    /\ loc' = [loc EXCEPT ![p] = Idle]

\* The handler goes on to its write, holding r.
Proceed(p, r) ==
    /\ loc' = [loc EXCEPT ![p] = r]
    /\ resp' = NoResp

\* ----------------------------------------------------------------- signup
\* signup_check without the lookup of the email.
signup_check_unchecked(p) ==
    /\ loc[p].op = "idle"
    /\ \E email \in Emails, password \in Passwords :
          Proceed(p, Request("signup", email, password, NoToken))
    /\ UNCHANGED <<users, now, issued>>

\* auth.py 50-54: the lookup and the 409.
signup_check(p) ==
    /\ loc[p].op = "idle"
    /\ \E email \in Emails, password \in Passwords :
          LET r == Request("signup", email, password, NoToken)
          IN  IF get_user_by_email(email) # 0
              THEN Respond(p, Response(r, "AccountExists"))
              ELSE Proceed(p, r)
    /\ UNCHANGED <<users, now, issued>>

\* auth.py 55-60: hash, create the row, schedule the confirmation mail.  The
\* handler catches nothing create_user raises.
signup_write(p) ==
    /\ loc[p].op = "signup"
    /\ LET mail == create_email_token(loc[p].email, now)
       IN  IF create_user_raises(loc[p].email)
           THEN /\ users' = users
                /\ issued' = issued
                /\ Respond(p, Response(loc[p], "InternalError"))
           ELSE /\ \E salt \in Salts :
                     users' = create_user(
                         loc[p].email,
                         get_password_hash(loc[p].password, salt))
                /\ issued' = issued \cup {mail}
                /\ Respond(p, [Response(loc[p], "Created")
                                  EXCEPT !.mail = mail])
    /\ UNCHANGED now

\* ------------------------------------------------------------------ login
\* login_status checking the credential before the confirmation.
login_status_credential_first(id, password) ==
    IF id = 0 THEN "UnknownAccount"
    ELSE IF ~verify_password(password, users[id].password) THEN "BadCredential"
    ELSE IF ~users[id].confirmed THEN "AccountUnconfirmed"
    ELSE "ok"

\* login_status without the test of user.confirmed.
login_status_unconfirmed_ok(id, password) ==
    IF id = 0 THEN "UnknownAccount"
    ELSE IF ~verify_password(password, users[id].password) THEN "BadCredential"
    ELSE "ok"

\* auth.py 77-90: existence, then confirmation, then credential.
login_status(id, password) ==
    IF id = 0 THEN "UnknownAccount"
    ELSE IF ~users[id].confirmed THEN "AccountUnconfirmed"
    ELSE IF ~verify_password(password, users[id].password) THEN "BadCredential"
    ELSE "ok"

\* login_check revoking the stored refresh token when the password is wrong.
login_check_revokes(p) ==
    /\ loc[p].op = "idle"
    /\ \E email \in Emails, password \in Passwords :
          LET r == Request("login", email, password, NoToken)
              id == get_user_by_email(email)
              status == login_status(id, password)
          IN  IF status = "BadCredential"
              THEN /\ users' = update_token(id, NoToken)
                   /\ Respond(p, Response(r, status))
              ELSE IF status # "ok"
              THEN /\ users' = users
                   /\ Respond(p, Response(r, status))
              ELSE /\ users' = users
                   /\ Proceed(p, [r EXCEPT !.id = id])
    /\ UNCHANGED <<now, issued>>

login_check(p) ==
    /\ loc[p].op = "idle"
    /\ \E email \in Emails, password \in Passwords :
          LET r == Request("login", email, password, NoToken)
              id == get_user_by_email(email)
              status == login_status(id, password)
          IN  IF status # "ok"
              THEN Respond(p, Response(r, status))
              ELSE Proceed(p, [r EXCEPT !.id = id])
    /\ UNCHANGED <<users, now, issued>>

\* login_write returning the pair without storing the refresh token.
login_write_unstored(p) ==
    /\ loc[p].op = "login"
    /\ LET access == create_access_token(loc[p].email, now)
           refresh == create_refresh_token(loc[p].email, now)
       IN  /\ users' = users
           /\ issued' = issued \cup {access, refresh}
           /\ Respond(p, [Response(loc[p], "TokenPair") EXCEPT
                             !.access_token = access,
                             !.refresh_token = refresh])
    /\ UNCHANGED now

\* auth.py 92-99: issue the pair, store the refresh token, return both.
login_write(p) ==
    /\ loc[p].op = "login"
    /\ LET access == create_access_token(loc[p].email, now)
           refresh == create_refresh_token(loc[p].email, now)
       IN  /\ users' = update_token(loc[p].id, refresh)
           /\ issued' = issued \cup {access, refresh}
           /\ Respond(p, [Response(loc[p], "TokenPair") EXCEPT
                             !.access_token = access,
                             !.refresh_token = refresh])
    /\ UNCHANGED now

\* ---------------------------------------------------------- refresh_token
\* refresh_token_check decoding without the refresh scope being required.
refresh_token_check_any_scope(p) ==
    /\ loc[p].op = "idle"
    /\ \E token \in Presentable :
          LET r == Request("refresh_token", "-", "-", token)
              d == Decode(token, Scopes, now)
              id == get_user_by_email(d.sub)
          IN  IF ~d.ok
              THEN Respond(p, Response(r, d.err))
              ELSE IF id = 0
              THEN Respond(p, Response(r, "InternalError"))
              ELSE Proceed(p, [r EXCEPT !.email = d.sub, !.id = id,
                                        !.seen = users[id].refresh_token])
    /\ UNCHANGED <<users, now, issued>>

\* auth.py 118-120: decode the presented token, load its subject's account.
\* With no account for the subject, line 121 reads an attribute of None.
refresh_token_check(p) ==
    /\ loc[p].op = "idle"
    /\ \E token \in Presentable :
          LET r == Request("refresh_token", "-", "-", token)
              d == decode_refresh_token(token, now)
              id == get_user_by_email(d.sub)
          IN  IF ~d.ok
              THEN Respond(p, Response(r, d.err))
              ELSE IF id = 0
              THEN Respond(p, Response(r, "InternalError"))
              ELSE Proceed(p, [r EXCEPT !.email = d.sub, !.id = id,
                                        !.seen = users[id].refresh_token])
    /\ UNCHANGED <<users, now, issued>>

\* refresh_token_write rotating whatever token decoded, stored or not.
refresh_token_write_any(p) ==
    /\ loc[p].op = "refresh_token"
    /\ LET access == create_access_token(loc[p].email, now)
           refresh == create_refresh_token(loc[p].email, now)
       IN  /\ users' = update_token(loc[p].id, refresh)
           /\ issued' = issued \cup {access, refresh}
           /\ Respond(p, [Response(loc[p], "TokenPair") EXCEPT
                             !.access_token = access,
                             !.refresh_token = refresh])
    /\ UNCHANGED now

\* refresh_token_write failing on a mismatch without revoking.
refresh_token_write_keeps(p) ==
    /\ loc[p].op = "refresh_token"
    /\ IF loc[p].seen # loc[p].token
       THEN /\ users' = users
            /\ issued' = issued
            /\ Respond(p, Response(loc[p], "RefreshReuseDetected"))
       ELSE LET access == create_access_token(loc[p].email, now)
                refresh == create_refresh_token(loc[p].email, now)
            IN  /\ users' = update_token(loc[p].id, refresh)
                /\ issued' = issued \cup {access, refresh}
                /\ Respond(p, [Response(loc[p], "TokenPair") EXCEPT
                                  !.access_token = access,
                                  !.refresh_token = refresh])
    /\ UNCHANGED now

\* auth.py 121-134: compare what was loaded with what was presented; revoke
\* on mismatch, rotate on match.
refresh_token_write(p) ==
    /\ loc[p].op = "refresh_token"
    /\ IF loc[p].seen # loc[p].token
       THEN /\ users' = update_token(loc[p].id, NoToken)
            /\ issued' = issued
            /\ Respond(p, Response(loc[p], "RefreshReuseDetected"))
       ELSE LET access == create_access_token(loc[p].email, now)
                refresh == create_refresh_token(loc[p].email, now)
            IN  /\ users' = update_token(loc[p].id, refresh)
                /\ issued' = issued \cup {access, refresh}
                /\ Respond(p, [Response(loc[p], "TokenPair") EXCEPT
                                  !.access_token = access,
                                  !.refresh_token = refresh])
    /\ UNCHANGED now

\* ---------------------------------------------------------- request_email
\* request_email mailing without the test of user.confirmed.
request_email_always(p) ==
    /\ loc[p].op = "idle"
    /\ \E email \in Emails :
          LET r == Request("request_email", email, "-", NoToken)
              id == get_user_by_email(email)
              mail == create_email_token(email, now)
          IN  IF id = 0
              THEN /\ issued' = issued
                   /\ Respond(p, Response(r, "InternalError"))
              ELSE /\ issued' = issued \cup {mail}
                   /\ Respond(p, [Response(r, "CheckEmail")
                                     EXCEPT !.mail = mail])
    /\ UNCHANGED <<users, now>>

\* auth.py 156-164.  user.confirmed is read before user is tested: with no
\* account the attribute access on None raises.
request_email(p) ==
    /\ loc[p].op = "idle"
    /\ \E email \in Emails :
          LET r == Request("request_email", email, "-", NoToken)
              id == get_user_by_email(email)
              mail == create_email_token(email, now)
          IN  IF id = 0
              THEN /\ issued' = issued
                   /\ Respond(p, Response(r, "InternalError"))
              ELSE IF users[id].confirmed
              THEN /\ issued' = issued
                   /\ Respond(p, Response(r, "EmailAlreadyConfirmed"))
              ELSE /\ issued' = issued \cup {mail}
                   /\ Respond(p, [Response(r, "CheckEmail")
                                     EXCEPT !.mail = mail])
    /\ UNCHANGED <<users, now>>

\* -------------------------------------------------------- confirmed_email
\* confirmed_email_check without the test of user.confirmed.
confirmed_email_check_again(p) ==
    /\ loc[p].op = "idle"
    /\ \E token \in Presentable :
          LET r == Request("confirmed_email", "-", "-", token)
              d == get_email_from_token(token, now)
              id == get_user_by_email(d.sub)
          IN  IF ~d.ok
              THEN Respond(p, Response(r, d.err))
              ELSE IF id = 0
              THEN Respond(p, Response(r, "UnknownAccount"))
              ELSE Proceed(p, [r EXCEPT !.email = d.sub, !.id = id])
    /\ UNCHANGED <<users, now, issued>>

\* auth.py 179-186.
confirmed_email_check(p) ==
    /\ loc[p].op = "idle"
    /\ \E token \in Presentable :
          LET r == Request("confirmed_email", "-", "-", token)
              d == get_email_from_token(token, now)
              id == get_user_by_email(d.sub)
          IN  IF ~d.ok
              THEN Respond(p, Response(r, d.err))
              ELSE IF id = 0
              THEN Respond(p, Response(r, "UnknownAccount"))
              ELSE IF users[id].confirmed
              THEN Respond(p, Response(r, "EmailAlreadyConfirmed"))
              ELSE Proceed(p, [r EXCEPT !.email = d.sub, !.id = id])
    /\ UNCHANGED <<users, now, issued>>

\* auth.py 187-188.
confirmed_email_write(p) ==
    /\ loc[p].op = "confirmed_email"
    /\ users' = set_confirmed(loc[p].email)
    /\ Respond(p, Response(loc[p], "EmailConfirmed"))
    /\ UNCHANGED <<now, issued>>

\* --------------------------------------------------- reset_password_email
\* auth.py 210-214.  user.email is read with no test of user: with no
\* account the attribute access on None raises.
reset_password_email(p) ==
    /\ loc[p].op = "idle"
    /\ \E email \in Emails :
          LET r == Request("reset_password_email", email, "-", NoToken)
              id == get_user_by_email(email)
              mail == create_reset_token(email, now)
          IN  IF id = 0
              THEN /\ issued' = issued
                   /\ Respond(p, Response(r, "InternalError"))
              ELSE /\ issued' = issued \cup {mail}
                   /\ Respond(p, [Response(r, "PasswordResetEmailSent")
                                     EXCEPT !.mail = mail])
    /\ UNCHANGED <<users, now>>

\* --------------------------------------------------------- reset_password
\* reset_password_check refusing the accounts that are not yet confirmed.
reset_password_check_confirmed_only(p) ==
    /\ loc[p].op = "idle"
    /\ \E token \in Presentable, password \in Passwords :
          LET r == Request("reset_password", "-", password, token)
              d == get_email_from_token(token, now)
              id == get_user_by_email(d.sub)
          IN  IF ~d.ok
              THEN Respond(p, Response(r, d.err))
              ELSE IF id = 0
              THEN Respond(p, Response(r, "UnknownAccount"))
              ELSE IF ~users[id].confirmed
              THEN Respond(p, Response(r, "AccountUnconfirmed"))
              ELSE Proceed(p, [r EXCEPT !.email = d.sub, !.id = id])
    /\ UNCHANGED <<users, now, issued>>

\* auth.py 232-237.
reset_password_check(p) ==
    /\ loc[p].op = "idle"
    /\ \E token \in Presentable, password \in Passwords :
          LET r == Request("reset_password", "-", password, token)
              d == get_email_from_token(token, now)
              id == get_user_by_email(d.sub)
          IN  IF ~d.ok
              THEN Respond(p, Response(r, d.err))
              ELSE IF id = 0
              THEN Respond(p, Response(r, "UnknownAccount"))
              ELSE Proceed(p, [r EXCEPT !.email = d.sub, !.id = id])
    /\ UNCHANGED <<users, now, issued>>

\* reset_password_write answering success without the store being updated.
reset_password_write_lost(p) ==
    /\ loc[p].op = "reset_password"
    /\ users' = users
    /\ Respond(p, Response(loc[p], "PasswordResetSuccess"))
    /\ UNCHANGED <<now, issued>>

\* reset_password_write ending the account's session with the old password.
reset_password_write_revokes(p) ==
    /\ loc[p].op = "reset_password"
    /\ \E salt \in Salts :
          users' = [update_user_password(
                        loc[p].id, get_password_hash(loc[p].password, salt))
                      EXCEPT ![loc[p].id].refresh_token = NoToken]
    /\ Respond(p, Response(loc[p], "PasswordResetSuccess"))
    /\ UNCHANGED <<now, issued>>

\* auth.py 239-242.
reset_password_write(p) ==
    /\ loc[p].op = "reset_password"
    /\ \E salt \in Salts :
          users' = update_user_password(
                       loc[p].id, get_password_hash(loc[p].password, salt))
    /\ Respond(p, Response(loc[p], "PasswordResetSuccess"))
    /\ UNCHANGED <<now, issued>>

\* ------------------------------------------------------------------ clock
Tick ==
    /\ now < MaxTime
    /\ now' = now + 1
    /\ resp' = NoResp
    /\ UNCHANGED <<users, issued, loc>>

\* ---------------------------------------------------------- specification
Serve(p) ==
    \/ signup_check(p)
    \/ signup_write(p)
    \/ login_check(p)
    \/ login_write(p)
    \/ refresh_token_check(p)
    \/ refresh_token_write(p)
    \/ request_email(p)
    \/ confirmed_email_check(p)
    \/ confirmed_email_write(p)
    \/ reset_password_email(p)
    \/ reset_password_check(p)
    \/ reset_password_write(p)

\* Requests are served concurrently, one per worker.
Next == Tick \/ \E p \in Workers : Serve(p)

Spec == Init /\ [][Next]_vars

\* Requests arrive one after the other: each is answered before the next.
SeqNext == Tick \/ Serve(1)

SeqSpec == Init /\ [][SeqNext]_vars

\* Worker 1 serves any request; every other worker serves signups, which
\* race with each other and with whatever worker 1 is doing.
SignupRaceNext ==
    \/ Tick
    \/ Serve(1)
    \/ \E p \in Workers \ {1} : signup_check(p) \/ signup_write(p)

SignupRaceSpec == Init /\ [][SignupRaceNext]_vars

\* ================================================================= claims
\* The step in which worker p's handler op makes its write and answers.
Writes(p, op) == loc[p].op = op /\ loc'[p].op = "idle"

\* The step answers a request for op.
Answers(op) == resp' # NoResp /\ resp'.op = op

\* The account of an email (get_user_by_email's row), and its stored token.
Stored(id) == users[id].refresh_token

\* C1: a refresh whose token decoded and whose account was loaded: if the
\* stored refresh token differs from the presented one, the stored token
\* becomes null and the call fails with RefreshReuseDetected, issuing
\* nothing; otherwise a new pair is issued, returned and stored.  A refresh
\* answers with a pair only when the presented token is the stored one.
C1_DetectAndRevoke ==
    [][\A p \in Workers :
          /\ Writes(p, "refresh_token") =>
                IF Stored(loc[p].id) # loc[p].token
                THEN /\ users'[loc[p].id].refresh_token = NoToken
                     /\ resp'.status = "RefreshReuseDetected"
                     /\ resp'.access_token = NoToken
                     /\ resp'.refresh_token = NoToken
                     /\ issued' = issued
                ELSE /\ resp'.status = "TokenPair"
                     /\ resp'.refresh_token.scope = "refresh"
                     /\ resp'.access_token.scope = "access"
                     /\ users'[loc[p].id].refresh_token = resp'.refresh_token
                     /\ {resp'.access_token, resp'.refresh_token}
                            \subseteq issued'
          /\ (Answers("refresh_token") /\ resp'.status = "TokenPair") =>
                \E q \in Workers :
                    /\ Writes(q, "refresh_token")
                    /\ Stored(loc[q].id) = resp'.token
    ]_vars

\* C1 witness: a stale token was presented and the stored one revoked.
C1_Witness ==
    /\ resp.op = "refresh_token"
    /\ resp.status = "RefreshReuseDetected"
    /\ resp.token.scope = "refresh"
    /\ users[get_user_by_email(resp.email)].refresh_token = NoToken

\* C2: two refresh calls in a row with the same token: the first succeeds
\* and rotates the stored token to a new value, so the second, replaying the
\* token, fails with RefreshReuseDetected and clears the stored token, and
\* with the stored token null a further refresh fails.
C2_RotateThenDetect ==
    [][\A p \in Workers :
          Writes(p, "refresh_token") =>
             /\ Stored(loc[p].id) = loc[p].token =>
                   /\ resp'.status = "TokenPair"
                   /\ users'[loc[p].id].refresh_token # loc[p].token
             /\ Stored(loc[p].id) # loc[p].token =>
                   /\ resp'.status = "RefreshReuseDetected"
                   /\ users'[loc[p].id].refresh_token = NoToken
             /\ Stored(loc[p].id) = NoToken =>
                   /\ resp'.status # "TokenPair"
                   /\ users'[loc[p].id].refresh_token = NoToken
    ]_vars

\* C3: the check-then-set of the stored refresh token is serialized: two
\* refresh requests presenting the same token are never both past the
\* equality check with neither having written, so at most one of them goes
\* on to return a new pair.
C3_SerializedRefresh ==
    \A p, q \in Workers :
       (/\ p # q
        /\ loc[p].op = "refresh_token"
        /\ loc[q].op = "refresh_token"
        /\ loc[p].token = loc[q].token) =>
          ~(loc[p].seen = loc[p].token /\ loc[q].seen = loc[q].token)

LoginAccount == get_user_by_email(resp.email)

\* C5: login answers UnknownAccount exactly when no account has the email,
\* otherwise AccountUnconfirmed exactly when confirmed is false (whatever the
\* password), otherwise BadCredential exactly when the password does not
\* verify, and a token pair exactly when all three checks pass.
C5_LoginErrorOrder ==
    resp.op = "login" =>
       /\ resp.status \in {"UnknownAccount", "AccountUnconfirmed",
                           "BadCredential", "TokenPair"}
       /\ resp.status = "UnknownAccount" <=> LoginAccount = 0
       /\ resp.status = "AccountUnconfirmed" <=>
             (LoginAccount # 0 /\ ~users[LoginAccount].confirmed)
       /\ resp.status = "BadCredential" <=>
             /\ LoginAccount # 0
             /\ users[LoginAccount].confirmed
             /\ ~verify_password(resp.password, users[LoginAccount].password)
       /\ resp.status = "TokenPair" <=>
             /\ LoginAccount # 0
             /\ users[LoginAccount].confirmed
             /\ verify_password(resp.password, users[LoginAccount].password)

\* C5 witness: an unconfirmed account, a wrong password, AccountUnconfirmed.
C5_Witness ==
    /\ resp.op = "login"
    /\ resp.status = "AccountUnconfirmed"
    /\ LoginAccount # 0
    /\ ~verify_password(resp.password, users[LoginAccount].password)

\* C6: after a successful login the stored refresh token is the refresh
\* token of the returned pair.
C6_LoginStoresIssued ==
    (resp.op = "login" /\ resp.status = "TokenPair") =>
       /\ resp.refresh_token.scope = "refresh"
       /\ resp.refresh_token.sub = resp.email
       /\ resp.access_token.scope = "access"
       /\ users[LoginAccount].refresh_token = resp.refresh_token

\* C6 witness: a login that replaced an earlier, different refresh token.
C6_Witness ==
    /\ resp.op = "login"
    /\ resp.status = "TokenPair"
    /\ users[LoginAccount].refresh_token = resp.refresh_token
    /\ \E t \in issued : t.scope = "refresh" /\ t # resp.refresh_token

\* C7: verification tokens are single-purpose: a password is reset only with
\* a token of scope password-reset, an account is confirmed only with a
\* token of scope email-verify.
C7_SinglePurpose ==
    /\ (resp.op = "reset_password"
          /\ resp.status = "PasswordResetSuccess") =>
          resp.token.scope = "password_reset"
    /\ (resp.op = "confirmed_email" /\ resp.status = "EmailConfirmed") =>
          resp.token.scope = "email_verify"

\* C8: a password-reset request always completes with the generic success
\* answer, also for an email that has no account, and changes no account.
C8_ResetRequestNeverFails ==
    [][Answers("reset_password_email") =>
          /\ resp'.status = "PasswordResetEmailSent"
          /\ users' = users
    ]_vars

\* A token the mailer sent for email confirmation, not yet expired.
ValidConfirmation(token) ==
    /\ token \in issued
    /\ token.scope = "email_verify"
    /\ now < token.iat + VerifyTTL

\* C9: confirm with a valid token sets confirmed on an unconfirmed account
\* and answers success; on a confirmed account it answers already-confirmed
\* and writes nothing; confirmed never goes back to false.
C9_ConfirmIdempotent ==
    [][/\ \A i \in 1..Len(users) :
             users[i].confirmed =>
                (Len(users') >= i /\ users'[i].confirmed)
       /\ \A p \in Workers :
             Writes(p, "confirmed_email") =>
                /\ ~users[loc[p].id].confirmed
                /\ users'[loc[p].id].confirmed
                /\ resp'.status = "EmailConfirmed"
       /\ (Answers("confirmed_email") /\ ValidConfirmation(resp'.token)
             /\ get_user_by_email(resp'.token.sub) # 0) =>
             IF users[get_user_by_email(resp'.token.sub)].confirmed
             THEN /\ resp'.status = "EmailAlreadyConfirmed"
                  /\ users' = users
             ELSE /\ resp'.status = "EmailConfirmed"
                  /\ users'[get_user_by_email(resp'.token.sub)].confirmed
    ]_vars

\* C9 witness: a later confirm, with a valid token, of a confirmed account.
C9_Witness ==
    /\ resp.op = "confirmed_email"
    /\ resp.status = "EmailAlreadyConfirmed"
    /\ ValidConfirmation(resp.token)
    /\ users[get_user_by_email(resp.token.sub)].confirmed

\* C10: once reset_password has succeeded with new password p on a confirmed
\* account, login's checks pass with p and end in BadCredential with any
\* other password, the old one included.
C10_LoginAfterReset ==
    (/\ resp.op = "reset_password"
     /\ resp.status = "PasswordResetSuccess"
     /\ users[get_user_by_email(resp.email)].confirmed) =>
       \A q \in Passwords :
          login_status(get_user_by_email(resp.email), q) =
             IF q = resp.password THEN "ok" ELSE "BadCredential"

\* C10 witness: a password reset succeeded on a confirmed account.
C10_Witness ==
    /\ resp.op = "reset_password"
    /\ resp.status = "PasswordResetSuccess"
    /\ resp.token.scope = "password_reset"
    /\ users[get_user_by_email(resp.email)].confirmed

\* The error kinds of spec.md 7 other than RefreshReuseDetected.
QuietErrors ==
    {"AccountExists", "UnknownAccount", "AccountUnconfirmed", "BadCredential",
     "TokenInvalid", "TokenExpired", "TokenScopeMismatch"}

\* C11: a request that fails with an error kind other than
\* RefreshReuseDetected leaves the account store as it was.
C11_QuietErrorsChangeNothing ==
    [][(resp' # NoResp /\ resp'.status \in QuietErrors) => users' = users]_vars

\* C11 witness: a login failed on its password while the account holds a
\* refresh token that a side effect could have touched.
C11_Witness ==
    /\ resp.op = "login"
    /\ resp.status = "BadCredential"
    /\ users[LoginAccount].refresh_token # NoToken

\* No two rows of the store carry the same email.
UniqueEmail ==
    \A i, j \in 1..Len(users) : users[i].email = users[j].email => i = j

C13_RequestEmail ==
    [][LET id == get_user_by_email(resp'.email)
       IN  (Answers("request_email") /\ id # 0) =>
              /\ users' = users
              /\ IF users[id].confirmed
                 THEN /\ resp'.status = "EmailAlreadyConfirmed"
                      /\ resp'.mail = NoToken
                      /\ issued' = issued
                 ELSE /\ resp'.status = "CheckEmail"
                      /\ resp'.mail.scope = "email_verify"
                      /\ resp'.mail.sub = resp'.email
                      /\ issued' = issued \cup {resp'.mail}
    ]_vars

\* C13 witness: the confirmation mail was requested for a confirmed account.
C13_Witness ==
    /\ resp.op = "request_email"
    /\ resp.status = "EmailAlreadyConfirmed"
    /\ users[get_user_by_email(resp.email)].confirmed

\* C14: a token whose scope is not refresh, presented at refresh, is
\* rejected by the decoding, in the step it arrives in: no account is loaded,
\* no token is issued or returned, no row changes.  No refresh handler gets
\* past decoding with a token of another scope.
C14_RefreshScopeOnly ==
    [][/\ (Answers("refresh_token") /\ resp'.token.scope # "refresh") =>
             /\ resp'.status \in
                    {"TokenInvalid", "TokenExpired", "TokenScopeMismatch"}
             /\ loc' = loc
             /\ users' = users
             /\ issued' = issued
             /\ resp'.access_token = NoToken
             /\ resp'.refresh_token = NoToken
       /\ \A p \in Workers :
             loc'[p].op = "refresh_token" => loc'[p].token.scope = "refresh"
    ]_vars

\* C14 witness: a well-signed, unexpired token of another scope was
\* presented at refresh and refused for its scope.
C14_Witness ==
    /\ resp.op = "refresh_token"
    /\ resp.token.scope \in {"access", "email_verify", "password_reset"}
    /\ resp.status = "TokenScopeMismatch"
    /\ users # <<>>

\* C15: a stored refresh token becomes null only in the step that answers a
\* refresh with RefreshReuseDetected.  A successful reset_password leaves the
\* account's stored refresh token and its confirmed flag as they were, so the
\* token that refresh compares against is still the one issued before.
C15_OnlyReuseClears ==
    [][/\ \A i \in 1..Len(users) :
             (users[i].refresh_token # NoToken
                 /\ users'[i].refresh_token = NoToken) =>
                /\ resp'.op = "refresh_token"
                /\ resp'.status = "RefreshReuseDetected"
       /\ (Answers("reset_password")
              /\ resp'.status = "PasswordResetSuccess") =>
             LET id == get_user_by_email(resp'.email)
             IN  /\ users'[id].refresh_token = users[id].refresh_token
                 /\ users'[id].confirmed = users[id].confirmed
    ]_vars

\* C15 witness: a password reset succeeded on an account that holds a
\* refresh token from an earlier login.
C15_Witness ==
    /\ resp.op = "reset_password"
    /\ resp.status = "PasswordResetSuccess"
    /\ users[get_user_by_email(resp.email)].refresh_token # NoToken

\* A password-reset token that was handed out and has not expired.
UnexpiredReset(token) ==
    /\ token \in issued
    /\ token.scope = "password_reset"
    /\ now < token.iat + VerifyTTL

\* C16: a reset_password call that presents an unexpired reset token of an
\* existing account is never refused, and every call that gets past the
\* checks answers success with the hash of its new password in the store.
\* Nothing in the state records a use of the token.
C16_ResetTokenReusable ==
    [][/\ (Answers("reset_password") /\ loc' = loc
              /\ get_user_by_email(resp'.token.sub) # 0) =>
             ~UnexpiredReset(resp'.token)
       /\ \A p \in Workers :
             Writes(p, "reset_password") =>
                /\ resp'.status = "PasswordResetSuccess"
                /\ resp'.token = loc[p].token
                /\ verify_password(loc[p].password,
                                   users'[loc[p].id].password)
    ]_vars

\* C16 witness: a reset token has just been used with success and is still
\* unexpired, so it can be presented again.
C16_Witness ==
    /\ resp.op = "reset_password"
    /\ resp.status = "PasswordResetSuccess"
    /\ UnexpiredReset(resp.token)
    /\ verify_password(resp.password,
                       users[get_user_by_email(resp.email)].password)

\* C17: request_email for an email without an account answers the
\* check-your-email status, mails nothing and changes no account.
C17_UnknownEmailNoRaise ==
    [][(Answers("request_email") /\ get_user_by_email(resp'.email) = 0) =>
          /\ resp'.status = "CheckEmail"
          /\ resp'.mail = NoToken
          /\ issued' = issued
          /\ users' = users
    ]_vars

\* C18: every account that holds a refresh token is confirmed; a login for
\* an unconfirmed account answers AccountUnconfirmed; a token pair is
\* returned only for a confirmed account; and confirmed turns true only in
\* the step in which a confirmation succeeds.
C18_TokenOnlyWhenConfirmed ==
    [][/\ \A i \in 1..Len(users') :
             users'[i].refresh_token # NoToken => users'[i].confirmed
       /\ LET id == get_user_by_email(resp'.email)
          IN  (Answers("login") /\ id # 0 /\ ~users[id].confirmed) =>
                 resp'.status = "AccountUnconfirmed"
       /\ (resp' # NoResp /\ resp'.status = "TokenPair") =>
             users[get_user_by_email(resp'.email)].confirmed
       /\ \A i \in 1..Len(users) :
             (~users[i].confirmed /\ users'[i].confirmed) =>
                /\ resp'.op = "confirmed_email"
                /\ resp'.status = "EmailConfirmed"
    ]_vars

\* C18 witness: a login with the right password was refused because the
\* account is not confirmed, and the account holds no refresh token.
C18_Witness ==
    /\ resp.op = "login"
    /\ resp.status = "AccountUnconfirmed"
    /\ verify_password(resp.password, users[LoginAccount].password)
    /\ users[LoginAccount].refresh_token = NoToken
====
